---- MODULE Spec2Model ----
(***************************************************************************)
(* Drug Approval Tracker (src/drug_approval_tracker.py): the pipeline      *)
(* track_approvals = search -> for each hit: extract_content ->            *)
(* analyze_content -> collect -> return, with its three collaborators      *)
(* (search provider, HTTP fetch + PDF/HTML parsers, generative model)      *)
(* as nondeterministic inputs.                                             *)
(*                                                                         *)
(* Python values are modelled as follows.                                  *)
(*  - a dict is a function whose DOMAIN is its key set;                    *)
(*  - an extracted text is [doc, len]: the first len characters of the     *)
(*    normalized text of the document at URL doc ("" is EmptyText);        *)
(*  - a model response text is a sequence of one-character tokens, in      *)
(*    which the token "{}" stands for the serialisation of a JSON object   *)
(*    (first character {, last character }), "[]" for a JSON array and     *)
(*    "0" for a JSON number;                                               *)
(*  - a function that can raise returns [exc, value, ...]: exc = TRUE      *)
(*    means the call raised to its caller.                                 *)
(***************************************************************************)
EXTENDS Integers, Sequences, FiniteSets, TLC

VARIABLES
  pc,         \* position of track_approvals: start, loop, analyze, done, raised
  hits,       \* results: the list search_drug_approvals returned
  i,          \* the loop index of enumerate(results), 0-based as in the code
  content,    \* the local content of the current iteration
  processed,  \* the accumulating list processed
  ret,        \* the list track_approvals returned
  trace,      \* history: external calls, sleeps and per-hit skip/collect, in order
  tmpFiles,   \* ranks of the hits whose temporary PDF file is still on disk
  searched,   \* history: what the search collaborator did ("none" before the call)
  lastFetch,  \* history: what the fetch/parse collaborators did in the last extract_content
  analysis    \* history: the last analyze_content call: its response and its return value

vars == <<pc, hits, i, content, processed, ret, trace, tmpFiles, searched, lastFetch, analysis>>

\* Largest number of hits the search collaborator returns in the model.
MaxHits == 2

\* Config.max_text_length, and the cap content[:4000] of the prompt.
max_text_length == 8000
prompt_text_length == 4000

Min(a, b) == IF a <= b THEN a ELSE b

-----------------------------------------------------------------------------
(* dicts *)

\* d.get(k, default)
Get(d, k, default) == IF k \in DOMAIN d THEN d[k] ELSE default

\* d.update(e), and d[k] = v as Update(d, k :> v)
Update(d, e) ==
  [k \in (DOMAIN d) \cup (DOMAIN e) |-> IF k \in DOMAIN e THEN e[k] ELSE d[k]]

EmptyDict == [k \in {} |-> ""]

-----------------------------------------------------------------------------
(* texts *)

EmptyText == [doc |-> "", len |-> 0]

\* text[:n]
Slice(t, n) ==
  IF t.len = 0 \/ n = 0 THEN EmptyText ELSE [doc |-> t.doc, len |-> Min(t.len, n)]

-----------------------------------------------------------------------------
(* events of the history *)

Event(op, chars) == [op |-> op, rank |-> 0, chars |-> chars]

\* the events of one hit carry its 1-based rank
Stamp(events, r) == [k \in 1..Len(events) |-> [events[k] EXCEPT !.rank = r]]

-----------------------------------------------------------------------------
(* SearchManager.search_drug_approvals *)

\* The hits the search collaborator can return: a hit is the dict of one
\* organic result; the third has no link, no snippet.
HitPool ==
  { [link |-> "https://fda.gov/a", title |-> "A", snippet |-> "sa"],
    [link |-> "https://fda.gov/b.pdf", title |-> "B", snippet |-> "sb"],
    [title |-> "C"] }

HitLists == UNION { [1..n -> HitPool] : n \in 0..MaxHits }

\* What GoogleSearch(params).get_dict() does: raise, or return a dict with or
\* without the key organic_results.
SearchOutcomes ==
  { [kind |-> "raises", results |-> EmptyDict],
    [kind |-> "returns", results |-> [error |-> "no results"]] }
  \cup { [kind |-> "returns", results |-> [organic_results |-> hs]] : hs \in HitLists }

\* the try block
search_try(out) ==
  IF out.kind = "raises"
  THEN [exc |-> TRUE, value |-> <<>>, events |-> <<Event("search", 0)>>]
  ELSE [exc |-> FALSE,
        value |-> Get(out.results, "organic_results", <<>>),
        events |-> <<Event("search", 0), Event("sleep_serpapi", 0)>>]

\* a search that is tried a second time when it raised
search_retried(out) ==
  LET r == search_try(out)
  IN  IF r.exc
      THEN [exc |-> FALSE, value |-> <<>>, events |-> r.events \o r.events]
      ELSE r

search_drug_approvals(out) ==
  LET r == search_try(out)
  IN  IF r.exc
      THEN [exc |-> FALSE, value |-> <<>>, events |-> r.events]
      ELSE r

-----------------------------------------------------------------------------
(* ContentExtractor *)

\* Lengths of the normalized text of a document.
DocLens == {0, 100, 8000, 8001, 10000000}

NoFetch == [request |-> "none", content_type |-> "", parse |-> "", len |-> 0]

\* What requests.get, raise_for_status and the parser do for a URL.  The
\* empty URL (a hit without link) makes requests.get raise.
FetchOutcomes(url) ==
  { [request |-> "raises", content_type |-> "", parse |-> "", len |-> 0] }
  \cup
  IF url = "" THEN {}
  ELSE
    { [request |-> "bad_status", content_type |-> "", parse |-> "", len |-> 0] }
    \cup { [request |-> "ok", content_type |-> "application/pdf", parse |-> p, len |-> 0] :
             p \in {"create_fails", "write_fails", "open_fails", "read_fails"} }
    \cup { [request |-> "ok", content_type |-> c, parse |-> "parse_fails", len |-> 0] :
             c \in {"text/html", ""} }
    \cup { [request |-> "ok", content_type |-> c, parse |-> "ok", len |-> n] :
             c \in {"application/pdf", "text/html", ""}, n \in DocLens }

\* 'pdf' in response.headers.get('content-type', '')
HasPdf(content_type) == content_type = "application/pdf"

\* PDF text returned without the cap
pdf_untruncated(url, f) ==
  IF f.parse = "ok"
  THEN [exc |-> FALSE, value |-> Slice([doc |-> url, len |-> f.len], f.len), file_left |-> FALSE]
  ELSE [exc |-> FALSE, value |-> EmptyText, file_left |-> f.parse # "create_fails"]

\* file_left: the NamedTemporaryFile(delete=False) exists when the function returns
extract_pdf_content(url, f) ==
  IF f.parse = "create_fails"
  THEN [exc |-> FALSE, value |-> EmptyText, file_left |-> FALSE]
  ELSE IF f.parse \in {"write_fails", "open_fails", "read_fails"}
  THEN [exc |-> FALSE, value |-> EmptyText, file_left |-> TRUE]
  ELSE [exc |-> FALSE,
        value |-> Slice([doc |-> url, len |-> f.len], max_text_length),
        file_left |-> FALSE]

extract_html_content(url, f) ==
  IF f.parse = "parse_fails"
  THEN [exc |-> FALSE, value |-> EmptyText, file_left |-> FALSE]
  ELSE [exc |-> FALSE,
        value |-> Slice([doc |-> url, len |-> f.len], max_text_length),
        file_left |-> FALSE]

\* the try block of extract_content
extract_try(url, f) ==
  IF f.request \in {"raises", "bad_status"}
  THEN [exc |-> TRUE, value |-> EmptyText, file_left |-> FALSE]
  ELSE IF HasPdf(f.content_type)
  THEN extract_pdf_content(url, f)
  ELSE extract_html_content(url, f)

\* extract_content without its except clause
extract_unguarded(url, f) == extract_try(url, f)

extract_content(url, f) ==
  LET r == extract_try(url, f)
  IN  IF r.exc
      THEN [exc |-> FALSE, value |-> EmptyText, file_left |-> r.file_left]
      ELSE r

-----------------------------------------------------------------------------
(* AIAnalyzer.analyze_content *)

\* the twelve keys of the prompt's schema and of the fallback record
ModelKeys ==
  { "drug_name", "sponsor_company", "approval_date", "indication", "drug_type",
    "regulatory_action", "approval_status", "therapeutic_area", "source_agency",
    "source_url", "confidence_score" }

RecordKeys == ModelKeys \cup {"extraction_timestamp"}

\* datetime.now().isoformat()
Now == "now"

\* a well-formed answer of the model that names src as its source
ModelRecord(src) ==
  [k \in ModelKeys |->
     CASE k = "source_url" -> src
       [] k = "drug_name" -> "Drug X"
       [] k = "confidence_score" -> "0.9"
       [] OTHER -> "Not specified"]

\* The JSON objects the model can answer with: the schema echoing the URL of
\* the prompt, the schema with another URL, an object without any key, and
\* the schema plus keys the pipeline sets itself.
ModelObjects(url) ==
  { ModelRecord(url),
    ModelRecord("https://example.org/other"),
    EmptyDict,
    Update(ModelRecord(url),
           [extraction_timestamp |-> "1999", search_title |-> "bogus", search_position |-> 99]) }

\* three backticks; the token "bq" is the backtick character
Fence == <<"bq", "bq", "bq">>

\* The texts of a response: "{}" is the serialisation of the response's obj.
ObjectTexts ==
  { <<"{}">>,
    <<" ", "{}", "\n">>,
    Fence \o <<"j", "s", "o", "n", "\n", "{}", "\n">> \o Fence,
    Fence \o <<"\n", "{}", "\n">> \o Fence,
    <<"j", "s", "o", "n", "{}">> }

OtherTexts ==
  { << >>,
    <<"x">>,
    <<"x", "{}">>,
    <<"{}", "x">>,
    <<"[]">>,
    <<"0">>,
    <<"n", "u", "l", "l">>,
    Fence \o <<"j", "s", "o", "n", "\n", "x", "\n">> \o Fence }

NoResponse == [kind |-> "none", text |-> << >>, obj |-> EmptyDict]

\* What model.generate_content(prompt) and response.text do.
GenResponses(url) ==
  { [kind |-> k, text |-> << >>, obj |-> EmptyDict] : k \in {"raises", "text_raises"} }
  \cup { [kind |-> "text", text |-> t, obj |-> o] : t \in ObjectTexts, o \in ModelObjects(url) }
  \cup { [kind |-> "text", text |-> t, obj |-> EmptyDict] : t \in OtherTexts }

RECURSIVE LStrip(_, _)
LStrip(s, cs) == IF s # << >> /\ Head(s) \in cs THEN LStrip(Tail(s), cs) ELSE s

RECURSIVE RStrip(_, _)
RStrip(s, cs) ==
  IF s # << >> /\ s[Len(s)] \in cs THEN RStrip(SubSeq(s, 1, Len(s) - 1), cs) ELSE s

\* str.strip(chars): removes, at both ends, the characters of the set chars
strip(s, cs) == RStrip(LStrip(s, cs), cs)

Whitespace == {" ", "\n", "\t", "\r"}

\* the characters of the strip arguments: three backticks and json, three backticks
FenceJsonChars == {"bq", "j", "s", "o", "n"}
FenceChars == {"bq"}

\* response.text.strip().strip(fence + "json").strip(fence)
StripFence(text) == strip(strip(strip(text, Whitespace), FenceJsonChars), FenceChars)

\* json.loads(text): one JSON value between optional whitespace, else an error
json_loads(text, obj) ==
  LET t == strip(text, Whitespace)
  IN  IF t = <<"{}">> THEN [kind |-> "object", value |-> obj]
      ELSE IF t \in {<<"[]">>, <<"0">>, <<"n", "u", "l", "l">>}
      THEN [kind |-> "other", value |-> EmptyDict]
      ELSE [kind |-> "error", value |-> EmptyDict]

\* a fallback record that follows the "Not specified" sentinel for drug_name too
FallbackAllSentinel(url) ==
  [k \in RecordKeys |->
     CASE k = "source_url" -> url
       [] k = "confidence_score" -> "0.0"
       [] k = "extraction_timestamp" -> Now
       [] OTHER -> "Not specified"]

\* the dict of the except clause
FallbackRecord(url) ==
  [k \in RecordKeys |->
     CASE k = "drug_name" -> "Analysis failed"
       [] k = "source_url" -> url
       [] k = "confidence_score" -> "0.0"
       [] k = "extraction_timestamp" -> Now
       [] OTHER -> "Not specified"]

\* the prompt embeds content[:4000]
PromptChars(text) == Slice(text, prompt_text_length).len

\* the try block: generate_content, sleep, response.text, strip, json.loads,
\* result['extraction_timestamp'] = now (a TypeError unless result is a dict)
analyze_try(text, url, resp) ==
  LET call == Event("generate", PromptChars(text))
      paced == <<call, Event("sleep_gemini", 0)>>
      parsed == json_loads(StripFence(resp.text), resp.obj)
  IN  IF resp.kind = "raises"
      THEN [exc |-> TRUE, value |-> EmptyDict, events |-> <<call>>]
      ELSE IF resp.kind = "text_raises" \/ parsed.kind # "object"
      THEN [exc |-> TRUE, value |-> EmptyDict, events |-> paced]
      ELSE [exc |-> FALSE,
            value |-> Update(parsed.value, [extraction_timestamp |-> Now]),
            events |-> paced]

analyze_content(text, url, resp) ==
  LET r == analyze_try(text, url, resp)
  IN  IF r.exc
      THEN [exc |-> FALSE, value |-> FallbackRecord(url), events |-> r.events]
      ELSE r

-----------------------------------------------------------------------------
(* DrugApprovalTracker.track_approvals *)

\* res.get('link', '')
Url(res) == Get(res, "link", "")

\* provenance whose position counts the records collected so far
provenance_renumbered(res, idx) ==
  [search_title |-> Get(res, "title", ""),
   search_snippet |-> Get(res, "snippet", ""),
   search_position |-> Len(processed) + 1]

\* the dict of analysis.update(...), idx the index of enumerate
provenance(res, idx) ==
  [search_title |-> Get(res, "title", ""),
   search_snippet |-> Get(res, "snippet", ""),
   search_position |-> idx + 1]

\* a loop that never takes the continue
never_skip(text) == FALSE

\* if not content: continue
skip(text) == text = EmptyText

NoAnalysis == [resp |-> NoResponse, url |-> "", record |-> EmptyDict]

Init ==
  /\ pc = "start"
  /\ hits = << >>
  /\ i = 0
  /\ content = EmptyText
  /\ processed = << >>
  /\ ret = << >>
  /\ trace = << >>
  /\ tmpFiles = {}
  /\ searched = "none"
  /\ lastFetch = NoFetch
  /\ analysis = NoAnalysis

\* results = self.search_manager.search_drug_approvals(...); processed = []
Search ==
  /\ pc = "start"
  /\ \E out \in SearchOutcomes :
       LET r == search_drug_approvals(out)
       IN  /\ searched' = out.kind
           /\ trace' = trace \o r.events
           /\ hits' = IF r.exc THEN hits ELSE r.value
           /\ pc' = IF r.exc THEN "raised" ELSE "loop"
  /\ i' = 0
  /\ processed' = << >>
  /\ UNCHANGED <<content, ret, tmpFiles, lastFetch, analysis>>

\* one iteration up to the continue: url, content = extract_content(url)
Extract ==
  /\ pc = "loop"
  /\ i < Len(hits)
  /\ LET res == hits[i + 1]
         url == Url(res)
     IN  \E f \in FetchOutcomes(url) :
           LET r == extract_content(url, f)
               fetch == Event("fetch", r.value.len)
           IN  /\ lastFetch' = f
               /\ tmpFiles' = IF r.file_left THEN tmpFiles \cup {i + 1} ELSE tmpFiles
               /\ content' = IF r.exc THEN content ELSE r.value
               /\ IF r.exc
                  THEN /\ pc' = "raised"
                       /\ i' = i
                       /\ trace' = trace \o Stamp(<<fetch>>, i + 1)
                  ELSE IF skip(r.value)
                  THEN /\ pc' = "loop"
                       /\ i' = i + 1
                       /\ trace' = trace \o Stamp(<<fetch, Event("skip", 0)>>, i + 1)
                  ELSE /\ pc' = "analyze"
                       /\ i' = i
                       /\ trace' = trace \o Stamp(<<fetch>>, i + 1)
  /\ analysis' = NoAnalysis
  /\ UNCHANGED <<hits, processed, ret, searched>>

\* the rest of the iteration: analyze_content, update, append.  The local
\* content is dead after it.
Analyze ==
  /\ pc = "analyze"
  /\ LET res == hits[i + 1]
         url == Url(res)
     IN  \E resp \in GenResponses(url) :
           LET a == analyze_content(content, url, resp)
           IN  /\ analysis' = [resp |-> resp, url |-> url, record |-> a.value]
               /\ IF a.exc
                  THEN /\ pc' = "raised"
                       /\ i' = i
                       /\ processed' = processed
                       /\ trace' = trace \o Stamp(a.events, i + 1)
                  ELSE /\ pc' = "loop"
                       /\ i' = i + 1
                       /\ processed' = Append(processed, Update(a.value, provenance(res, i)))
                       /\ trace' = trace \o Stamp(a.events \o <<Event("collect", 0)>>, i + 1)
  /\ content' = EmptyText
  /\ lastFetch' = NoFetch
  /\ UNCHANGED <<hits, ret, tmpFiles, searched>>

\* return processed
Return ==
  /\ pc = "loop"
  /\ i = Len(hits)
  /\ pc' = "done"
  /\ ret' = processed
  /\ content' = EmptyText
  /\ lastFetch' = NoFetch
  /\ analysis' = NoAnalysis
  /\ UNCHANGED <<hits, i, processed, trace, tmpFiles, searched>>

Next == Search \/ Extract \/ Analyze \/ Return

Spec == Init /\ [][Next]_vars

-----------------------------------------------------------------------------
(* Properties *)

\* the fifteen keys of a returned record
SchemaKeys == RecordKeys \cup {"search_title", "search_snippet", "search_position"}

\* positions of the history that hold an event of kind op
Events(op) == {k \in DOMAIN trace : trace[k].op = op}

\* ranks of the hits whose extracted text was not empty
TextRanks == {trace[k].rank : k \in {e \in Events("fetch") : trace[e].chars > 0}}

\* ranks of the hits that were collected, in the order of collection
Collected == SelectSeq(trace, LAMBDA e : e.op = "collect")

\* the code's parse of a response: strip, then json.loads
Parsed(resp) == json_loads(StripFence(resp.text), resp.obj)

\* the generative call raised, or its text is not JSON
GenFailed(resp) ==
  \/ resp.kind \in {"raises", "text_raises"}
  \/ resp.kind = "text" /\ Parsed(resp).kind = "error"

\* the generative call raised, or its text is not a JSON object
GenNotObject(resp) ==
  \/ resp.kind \in {"raises", "text_raises"}
  \/ resp.kind = "text" /\ Parsed(resp).kind # "object"

\* C1: every returned record's source_url is the URL of the hit it was derived
\* from, whatever the generative collaborator answered.
C1_SourceUrlIsHitUrl ==
  pc = "done" =>
    \A j \in 1..Len(ret) :
      /\ "source_url" \in DOMAIN ret[j]
      /\ ret[j]["source_url"] = Url(hits[Collected[j].rank])

\* C2: every returned record has all fifteen schema keys, whatever the
\* generative collaborator answered.
C2_AllSchemaKeys ==
  pc = "done" => \A j \in 1..Len(ret) : SchemaKeys \subseteq DOMAIN ret[j]

\* C3: among the hits processed so far, exactly those with non-empty extracted
\* text have a record, one each, and each record carries the title and the
\* snippet of its hit; the returned list is that list, after every hit.
C3_OneRecordPerTextHit ==
  /\ Len(processed) = Len(Collected)
  /\ {Collected[j].rank : j \in 1..Len(Collected)} = TextRanks \cap (1..i)
  /\ Cardinality(TextRanks \cap (1..i)) = Len(processed)
  /\ \A j \in 1..Len(processed) :
       /\ Get(processed[j], "search_title", "absent") = Get(hits[Collected[j].rank], "title", "")
       /\ Get(processed[j], "search_snippet", "absent") = Get(hits[Collected[j].rank], "snippet", "")
  /\ pc = "done" => (i = Len(hits) /\ ret = processed)

\* a run of two hits, the first without text, the second analysed into the
\* fallback record
C3_Witness ==
  /\ pc = "done"
  /\ Len(hits) = 2
  /\ TextRanks = {2}
  /\ Len(ret) = 1
  /\ Get(ret[1], "drug_name", "absent") = "Analysis failed"
  /\ ret[1]["search_title"] = "B"

\* C4 as stated: after a failed generative call the record of analyze_content
\* has confidence_score 0.0 and "Not specified" in every other field, drug_name
\* included, except source_url and extraction_timestamp.
C4_FallbackAllNotSpecified ==
  GenFailed(analysis.resp) =>
    /\ Get(analysis.record, "confidence_score", "absent") = "0.0"
    /\ \A k \in RecordKeys \ {"confidence_score", "source_url", "extraction_timestamp"} :
         Get(analysis.record, k, "absent") = "Not specified"

\* C4 amended: after a failed generative call the record of analyze_content
\* has confidence_score 0.0, drug_name "Analysis failed" and "Not specified" in
\* every other field except source_url and extraction_timestamp.
C4_FallbackRecord ==
  GenFailed(analysis.resp) =>
    /\ Get(analysis.record, "confidence_score", "absent") = "0.0"
    /\ Get(analysis.record, "drug_name", "absent") = "Analysis failed"
    /\ \A k \in RecordKeys \ {"confidence_score", "drug_name", "source_url", "extraction_timestamp"} :
         Get(analysis.record, k, "absent") = "Not specified"

\* an answer that is not JSON was analysed
C4_Witness ==
  /\ analysis.resp.kind = "text"
  /\ analysis.resp.text = <<"x">>
  /\ analysis.record = FallbackRecord(analysis.url)

\* C5: every search call and every generative call is directly followed by its
\* pacing delay, and each hit with text has exactly one generative call.
C5_Paced ==
  /\ \A k \in Events("search") :
       k < Len(trace) /\ trace[k + 1].op = "sleep_serpapi"
  /\ \A k \in Events("generate") :
       k < Len(trace) /\ trace[k + 1].op = "sleep_gemini"
  /\ \A r \in TextRanks \cap (1..i) :
       Cardinality({k \in Events("generate") : trace[k].rank = r}) = 1

\* C6: no temporary PDF file is on disk once the call that created it returned.
C6_TempFileRemoved == tmpFiles = {}

\* C7: no component raises to track_approvals; a failed search gives no hits, a
\* failed fetch or parse gives the empty text, a failed analysis gives the
\* fallback record; the run ends with a list, after every hit was fetched.
C7_NoRaise ==
  /\ pc \in {"start", "loop", "analyze", "done"}
  /\ searched = "raises" => hits = << >>
  /\ (lastFetch.request \in {"raises", "bad_status"}
        \/ lastFetch.parse \in {"create_fails", "write_fails", "open_fails",
                                 "read_fails", "parse_fails"})
       => content = EmptyText /\ pc = "loop"
  /\ GenNotObject(analysis.resp) =>
       /\ analysis.record = FallbackRecord(analysis.url)
       /\ pc = "loop"
       /\ processed # << >>
       /\ processed[Len(processed)]["drug_name"] = "Analysis failed"
       /\ processed[Len(processed)]["confidence_score"] = "0.0"
  /\ pc = "done" =>
       /\ ret = processed
       /\ {trace[k].rank : k \in Events("fetch")} = 1..Len(hits)

\* the first hit could not be fetched, the second was analysed
C7_Witness ==
  /\ pc = "done"
  /\ Len(hits) = 2
  /\ Collected # << >>
  /\ Collected[1].rank = 2
  /\ trace[3].op = "fetch" /\ trace[3].chars = 0 /\ 1 \notin tmpFiles

\* C8: one search call per run; after a failed search the run goes straight to
\* its return, with no record, no fetch and no generative call.
C8_OneSearch ==
  /\ Cardinality(Events("search")) = IF pc = "start" THEN 0 ELSE 1
  /\ searched = "raises" =>
       /\ pc \in {"loop", "done"}
       /\ i = Len(hits)
       /\ hits = << >>
       /\ processed = << >>
       /\ Events("fetch") = {}
       /\ Events("generate") = {}
       /\ pc = "done" => ret = << >>

\* the search failed and the run returned
C8_Witness == searched = "raises" /\ pc = "done" /\ ret = << >>

\* C9: the text extract_content returns has at most max_text_length
\* characters; a parsed document of n characters gives its first
\* min(n, max_text_length) characters, on the PDF path and on the HTML path.
C9_Truncated ==
  lastFetch.request # "none" =>
    /\ content.len <= max_text_length
    /\ (lastFetch.request = "ok" /\ lastFetch.parse = "ok" /\ lastFetch.len > 0) =>
         /\ pc = "analyze"
         /\ content = [doc |-> Url(hits[i + 1]),
                       len |-> Min(lastFetch.len, max_text_length)]

\* a PDF far longer than the cap was cut to the cap
C9_Witness ==
  /\ lastFetch.len > max_text_length + 1
  /\ HasPdf(lastFetch.content_type)
  /\ content.len = max_text_length

\* C10: hits are processed one after another in search order, a hit without
\* text has no generative call, and each record's search_position is the rank
\* of its hit in the search result, so positions increase along the list.
C10_SequentialRanked ==
  /\ \A k, l \in DOMAIN trace : k < l => trace[k].rank <= trace[l].rank
  /\ \A p \in Events("fetch") :
       /\ \A q \in Events("fetch") : q # p => trace[q].rank # trace[p].rank
       /\ trace[p].rank > 1 =>
            \E q \in 1..(p - 1) :
              /\ trace[q].rank = trace[p].rank - 1
              /\ trace[q].op \in {"skip", "collect"}
  /\ \A p \in Events("generate") : trace[p].rank \in TextRanks
  /\ Len(processed) = Len(Collected)
  /\ \A j \in 1..Len(processed) :
       /\ processed[j]["search_position"] = Collected[j].rank
       /\ processed[j]["search_position"] \in 1..Len(hits)
       /\ \A k \in 1..(j - 1) :
            processed[k]["search_position"] < processed[j]["search_position"]

\* the first hit was skipped: the only record has position 2
C10_Witness ==
  /\ pc = "done"
  /\ Len(ret) = 1
  /\ ret[1]["search_position"] = 2
  /\ \E k \in Events("skip") : trace[k].rank = 1

====
